---- MODULE Spec2Model ----
(***************************************************************************)
(* Model of the ingestion pipeline of pcr_utils:                           *)
(*   - YahooMailPoller  (src/src/pcr_utils/yahoo_mail_poller.py)           *)
(*   - PCRPollingService (src/src/pcr_utils/pcr_parser.py)                 *)
(*   - SupabaseGateway   (src/src/pcr_utils/supabase_gateway.py)           *)
(* The poller's save_dir and the polling service's watch_dir are the same  *)
(* directory (WATCH_DIR); it is the variable watch_dir.                    *)
(***************************************************************************)
EXTENDS Integers, Sequences, FiniteSets, TLC

\* ------------------------------------------------------------------ bounds
MaxMsgs  == 5     \* messages that ever reach the mailbox
MaxClock == 1     \* the wall clock runs over the seconds 0..MaxClock
MaxRuns  == 2     \* constructions of the poller (1 + restarts)
MaxFiles == 2     \* files a producer deposits for the polling service
MaxStems == 2     \* distinct file names the producer uses
MaxFaxes == 3     \* messages of the mailbox, where they differ in attachments
SortFiles == 3    \* files of a work directory found at start-up
MaxMtime == 3     \* their modification times are in 1..MaxMtime
SearchMsgs == 17  \* messages in the mailbox of the search's specification
LoopMsgs == 1     \* messages of the mailbox, where both loops meet exceptions

\* ------------------------------------------------------- program constants
MAX_EMAILS_PER_POLL == 15
LOCATION_MAX == 300        \* supabase_gateway.py:168
DAY_POLL_INTERVAL == 900       \* seconds, yahoo_mail_poller.py:103-105
NIGHT_POLL_INTERVAL == 3600    \* seconds, yahoo_mail_poller.py:106
NIGHT_START_HOUR == 23         \* yahoo_mail_poller.py:107
NIGHT_END_HOUR == 6            \* yahoo_mail_poller.py:108
INCIDENT_TYPE_MAX == 20    \* supabase_gateway.py:175

None == 0         \* Python's None / the empty Message-ID

VARIABLES
    \* environment
    mailbox,                \* messages matching the search, oldest first; uid = index
    now,                    \* wall clock, in seconds
    \* YahooMailPoller
    processed_message_ids,  \* self.processed_message_ids (in memory)
    state_file,             \* lines of ~/.pcr_utils/processed_emails.txt
    watch_dir,              \* the work directory: set of file records
    pc,                     \* "sleep" (between cycles) | "cycle" (in the for loop)
                            \* | "except" (in the loop's handler) | "stopped"
    email_uids,             \* the cycle's search result, newest first
    stats,                  \* emails_checked / emails_processed of the cycle
    last,                   \* what the last _process_email call did
    cycle_start_ids,        \* processed_message_ids when the cycle started
    ever_marked,            \* identifiers ever passed to _add_processed_id
    runs,                   \* constructions of the poller so far
    connected,              \* what the last _connect_imap() returned
    imap,                   \* the state of the connection self.imap holds
    writing,                \* the file _process_email has open for writing
    running,                \* self.running
    night_start_hour,       \* self.night_start_hour
    night_end_hour,         \* self.night_end_hour
    poll_interval,          \* the last _get_poll_interval(): the hour it
                            \* read and the seconds it returned
    \* PCRPollingService
    error_dir,              \* the quarantine directory: set of file records
    ppc,                    \* "sleep" | "pass" | "stopped"
    pdf_files,              \* the pass's listing, oldest first
    pidx,                   \* next position of pdf_files to handle
    deposits,               \* files deposited by the producer so far
    prunning,               \* self.running of the polling service
    item,                   \* the last _process_pdf call: its steps, whether it
                            \* left the file in the work directory, and how many
                            \* files of the listing came after it
    \* SupabaseGateway
    pcr_json,               \* the payload of the last upsert_pcr_data call
    unit_id,                \* its unit_id argument
    db_result,              \* the dict it returned
    record,                 \* the record it passed to upsert(), if any
    table                   \* the rows of rip_and_runs

vars == <<mailbox, now, processed_message_ids, state_file, watch_dir, pc,
          email_uids, stats, last, cycle_start_ids, ever_marked, runs, connected,
          imap, writing, error_dir, ppc, pdf_files, pidx, deposits, item,
          pcr_json, unit_id, db_result, record, table,
          running, prunning, night_start_hour, night_end_hour, poll_interval>>

pollerVars == <<processed_message_ids, state_file, pc, email_uids, stats, last,
                cycle_start_ids, ever_marked, runs, connected, imap,
                writing>>
procVars == <<error_dir, ppc, pdf_files, pidx, item>>  \* deposits is the producer's
gatewayVars == <<pcr_json, unit_id, db_result, record, table>>
flagVars == <<running, prunning>>
schedVars == <<night_start_hour, night_end_hour, poll_interval>>

\* ----------------------------------------------------------------- helpers
Range(s) == {s[i] : i \in 1..Len(s)}

\* A file name: stem, the timestamps appended to it, and the suffix.
FileName(stem, tags, ext) == [stem |-> stem, tags |-> tags, ext |-> ext]

\* No file.
NoName == FileName(None, <<>>, "")

Names(dir) == {f.name : f \in dir}

\* open(path, 'wb') + write: creates the file or replaces its content.
WriteFile(dir, name, data, t) ==
    {f \in dir : f.name # name} \cup {[name |-> name, data |-> data, mtime |-> t]}

\* The attachment every fax message of this model carries: fax.pdf
FaxPdf == [stem |-> 1, ext |-> "pdf"]

\* str.lower() of a file suffix.
Lower(ext) == IF ext = "PDF" THEN "pdf" ELSE ext

\* ------------------------------------------------------- YahooMailPoller
\* Line 411: filename.lower().endswith('.pdf')
EndsWithPdf(att) == Lower(att.ext) = "pdf"

\* message.get('Message-ID', '').strip() of the message with this uid
MessageId(box, uid) == IF box[uid].hasId THEN uid ELSE None

\* _load_processed_ids: the set of the file's lines, or set() when the file
\* cannot be read.
_load_processed_ids(file, readOk) == IF readOk THEN Range(file) ELSE {}

\* _add_processed_id: add to the in-memory set, then append to the file; a
\* failing append is caught and logged.
_add_processed_id_rewriting(ids, file, message_id, appendOk) ==
    [ids  |-> ids \cup {message_id},
     file |-> IF appendOk THEN <<message_id>> ELSE file]

_add_processed_id(ids, file, message_id, appendOk) ==
    [ids  |-> ids \cup {message_id},
     file |-> IF appendOk THEN Append(file, message_id) ELSE file]

\* _search_emails: reverse the uids (newest first), keep MAX_EMAILS_PER_POLL;
\* [] when the search fails.
RECURSIVE Newest(_, _)
Newest(n, k) == IF n = 0 \/ k = 0 THEN <<>> ELSE <<n>> \o Newest(n - 1, k - 1)

_search_emails_oldest(box, searchOk) ==
    IF searchOk
    THEN [i \in 1..(IF Len(box) < MAX_EMAILS_PER_POLL THEN Len(box)
                    ELSE MAX_EMAILS_PER_POLL) |-> i]
    ELSE <<>>

_search_emails(box, searchOk) ==
    IF searchOk THEN Newest(Len(box), MAX_EMAILS_PER_POLL) ELSE <<>>

\* Lines 426-439: the target name, timestamp-qualified when it exists already.
SavePath(dir, att, t) ==
    LET plain == FileName(att.stem, <<>>, att.ext)
    IN  IF plain \in Names(dir) THEN FileName(att.stem, <<t>>, att.ext) ELSE plain

\* The attachment loop over the first k attachments of a message.
SaveAttachmentsNone(dir, atts, k, uid, t) == dir

RECURSIVE SaveAttachments(_, _, _, _, _)
SaveAttachments(dir, atts, k, uid, t) ==
    IF k = 0 THEN dir
    ELSE LET d == SaveAttachments(dir, atts, k - 1, uid, t)
         IN  WriteFile(d, SavePath(d, atts[k], t), uid, t)

\* The branch _process_email takes.
EmailPathNoDedup(fetch, message_id, ids, subject_ok) ==
    IF fetch = "raise" THEN "exception"
    ELSE IF fetch = "NO" THEN "fetch_failed"
    ELSE IF message_id = None THEN "no_id"
    ELSE IF ~subject_ok THEN "subject_mismatch"
    ELSE "extract"

EmailPath(fetch, message_id, ids, subject_ok) ==
    IF fetch = "raise" THEN "exception"
    ELSE IF fetch = "NO" THEN "fetch_failed"
    ELSE IF message_id = None THEN "no_id"
    ELSE IF message_id \in ids THEN "already"
    ELSE IF ~subject_ok THEN "subject_mismatch"
    ELSE "extract"

\* _process_email(email_uid): the new in-memory set, file and directory, and
\* the value returned.  walk = -1: the MIME walk completes; walk = k >= 0: an
\* exception is raised after k attachments were written.
_process_email(box, uid, ids, file, dir, t, fetch, walk, appendOk) ==
    LET m          == box[uid]
        message_id == MessageId(box, uid)
        path       == EmailPath(fetch, message_id, ids, m.subjOk)
        same       == [path |-> path, ret |-> None, ids |-> ids, file |-> file,
                       dir |-> dir, wrote |-> 0, marked |-> FALSE]
    IN  CASE path = "subject_mismatch" ->
               LET a == _add_processed_id(ids, file, message_id, appendOk)
               IN  [same EXCEPT !.ids = a.ids, !.file = a.file, !.marked = TRUE]
          [] path = "extract" /\ walk >= 0 ->
               [same EXCEPT !.path = "exception",
                            !.dir = SaveAttachments(dir, m.atts, walk, uid, t),
                            !.wrote = walk]
          [] path = "extract" /\ walk < 0 ->
               LET a == _add_processed_id(ids, file, message_id, appendOk)
               IN  [same EXCEPT !.ret = message_id, !.ids = a.ids, !.file = a.file,
                                !.marked = TRUE,
                                !.dir = SaveAttachments(dir, m.atts, Len(m.atts), uid, t),
                                !.wrote = Len(m.atts)]
          [] OTHER -> same

\* Line 485: the for loop of _process_new_emails breaks on a None result.
LoopBreaksNever(message_id) == FALSE

LoopBreaks(message_id) == message_id = None

NoEmail == [uid |-> 0, path |-> "none", ret |-> None, wrote |-> 0, marked |-> FALSE]

\* Where run() is after the try statement of its loop.  Both loops catch
\* Exception (yahoo_mail_poller.py:533-540, pcr_parser.py:413-417) and sleep:
\* an exception does not leave run().
LoopLevelUncaught(raised) == IF raised THEN "stopped" ELSE "sleep"

LoopLevel(raised) == "sleep"

\* _get_poll_interval(), lines 142-165, for the hour datetime.now() gives.
Hours == 0..23
NoInterval == [called |-> FALSE]
_get_poll_interval_no_wrap(start, end, current_hour) ==
    IF start <= current_hour /\ current_hour < end
    THEN NIGHT_POLL_INTERVAL ELSE DAY_POLL_INTERVAL

_get_poll_interval(start, end, current_hour) ==
    LET is_night == IF start > end
                    THEN current_hour >= start \/ current_hour < end
                    ELSE start <= current_hour /\ current_hour < end
    IN  IF is_night THEN NIGHT_POLL_INTERVAL ELSE DAY_POLL_INTERVAL

\* The condition of the while loop of both run() methods
\* (yahoo_mail_poller.py:505, pcr_parser.py:395): `while self.running`.
WhileTrue(flag) == TRUE

WhileRunning(flag) == flag

\* A message reaches the mailbox (and the search's criteria).
Arrive(kinds) ==
    /\ pc = "sleep"
    /\ Len(mailbox) < MaxMsgs
    /\ \E m \in kinds : mailbox' = Append(mailbox, m)
    /\ UNCHANGED <<now, watch_dir, deposits>>
    /\ UNCHANGED pollerVars
    /\ UNCHANGED procVars
    /\ UNCHANGED gatewayVars
    /\ UNCHANGED flagVars
    /\ UNCHANGED schedVars

Tick ==
    /\ now < MaxClock
    /\ now' = now + 1
    /\ UNCHANGED <<mailbox, watch_dir, deposits>>
    /\ UNCHANGED pollerVars
    /\ UNCHANGED procVars
    /\ UNCHANGED gatewayVars
    /\ UNCHANGED flagVars
    /\ UNCHANGED schedVars

\* run(), lines 508-516: the messages the cycle goes through; none when
\* _connect_imap() returned False (sleep, continue).
CycleUidsIgnoringConnect(box, connectOk, searchOk) == _search_emails(box, searchOk)

CycleUids(box, connectOk, searchOk) ==
    IF connectOk THEN _search_emails(box, searchOk) ELSE <<>>

\* The states of an imaplib connection: "none" (no connection, or one that
\* was logged out), "nonauth" (opened, not logged in), "auth" (logged in, no
\* mailbox selected), "selected".
ImapStates == {"none", "nonauth", "auth", "selected"}

\* Where _connect_imap can fail: IMAP4_SSL() (line 217), login() (221),
\* select() (225-229).
ConnectStages == {"socket", "login", "select"}

\* _connect_imap (lines 207-236): self.imap after the call.  IMAP4_SSL() that
\* raises leaves self.imap as it was; login() or select() that fails leaves
\* the new connection in self.imap, opened, and the method returns False.
_connect_imap(conn, connectOk, stage) ==
    IF connectOk THEN "selected"
    ELSE IF stage = "socket" THEN conn
    ELSE IF stage = "login" THEN "nonauth"
    ELSE "auth"

\* _disconnect_imap (lines 238-246): close(), then logout(), both inside one
\* try.  close() is legal in the state SELECTED only: in another state it
\* raises, logout() is skipped and the exception is logged.
_disconnect_imap(conn) ==
    IF conn = "selected" THEN "none" ELSE conn

\* run(), lines 505-516 and 472-476: connect, search.  A failed connection
\* (sleep, continue) or an empty search result (disconnect, sleep) ends the
\* cycle at once.
StartCycleAt(connects, searches, stages) ==
    /\ pc = "sleep"
    /\ WhileRunning(running)
    /\ \E connectOk \in connects, searchOk \in searches, stage \in stages :
         LET uids == CycleUids(mailbox, connectOk, searchOk)
             conn == _connect_imap(imap, connectOk, stage)
         IN  /\ email_uids' = uids
             /\ connected' = connectOk
             /\ pc' = IF uids = <<>> THEN "sleep" ELSE "cycle"
             /\ imap' = IF connectOk /\ uids = <<>> THEN _disconnect_imap(conn)
                        ELSE conn
    /\ stats' = [emails_checked |-> 0, emails_processed |-> 0]
    /\ last' = NoEmail
    /\ cycle_start_ids' = processed_message_ids
    /\ UNCHANGED <<mailbox, now, watch_dir, deposits, processed_message_ids,
                   state_file, ever_marked, runs, writing>>
    /\ UNCHANGED procVars
    /\ UNCHANGED gatewayVars
    /\ UNCHANGED flagVars
    /\ UNCHANGED schedVars

\* A cycle whose connection, when it fails, fails before it is opened.
StartCycle(connects, searches) == StartCycleAt(connects, searches, {"socket"})

\* One iteration of the for loop of _process_new_emails (lines 479-491), and,
\* when the loop ends, the rest of the cycle (disconnect, sleep).
ProcessEmail(fetches, raises, appends) ==
    /\ pc = "cycle"
    /\ writing = NoName
    /\ LET uid == email_uids[stats.emails_checked + 1]
       IN  \E fetch \in fetches, appendOk \in appends,
              walk \in {-1} \cup (IF raises THEN 0..Len(mailbox[uid].atts) ELSE {}) :
             LET r == _process_email(mailbox, uid, processed_message_ids, state_file,
                                     watch_dir, now, fetch, walk, appendOk)
                 checked == stats.emails_checked + 1
                 stop == LoopBreaks(r.ret)
             IN  /\ processed_message_ids' = r.ids
                 /\ state_file' = r.file
                 /\ watch_dir' = r.dir
                 /\ ever_marked' = IF r.marked THEN ever_marked \cup {MessageId(mailbox, uid)}
                                   ELSE ever_marked
                 /\ last' = [uid |-> uid, path |-> r.path, ret |-> r.ret,
                             wrote |-> r.wrote, marked |-> r.marked]
                 /\ stats' = [emails_checked |-> checked,
                              emails_processed |-> IF stop THEN stats.emails_processed
                                                   ELSE stats.emails_processed + 1]
                 /\ pc' = IF stop \/ checked = Len(email_uids) THEN "sleep" ELSE "cycle"
                 /\ imap' = IF stop \/ checked = Len(email_uids)
                            THEN _disconnect_imap(imap) ELSE imap
    /\ UNCHANGED <<mailbox, now, deposits, email_uids, cycle_start_ids, runs, connected,
                   writing>>
    /\ UNCHANGED procVars
    /\ UNCHANGED gatewayVars
    /\ UNCHANGED flagVars
    /\ UNCHANGED schedVars

\* The process dies (between two messages or two cycles) and is constructed
\* again: __init__ loads the processed identifiers from the state file.
Restart ==
    /\ runs < MaxRuns
    /\ \E readOk \in BOOLEAN :
         processed_message_ids' = _load_processed_ids(state_file, readOk)
    /\ runs' = runs + 1
    /\ pc' = "sleep"
    /\ email_uids' = <<>>
    /\ stats' = [emails_checked |-> 0, emails_processed |-> 0]
    /\ last' = NoEmail
    /\ cycle_start_ids' = processed_message_ids'
    /\ connected' = FALSE
    /\ imap' = "none"
    /\ writing' = NoName
    /\ running' = TRUE
    /\ UNCHANGED <<mailbox, now, watch_dir, deposits, state_file, ever_marked>>
    /\ UNCHANGED procVars
    /\ UNCHANGED gatewayVars
    /\ UNCHANGED prunning
    /\ UNCHANGED schedVars

\* run() asks for the interval before each sleep (lines 510, 528, 538); the
\* sleep's length changes nothing else of the model.
GetPollIntervalAt(hours) ==
    /\ pc = "sleep"
    /\ running
    /\ \E current_hour \in hours :
         poll_interval' =
             [hour |-> current_hour,
              seconds |-> _get_poll_interval(night_start_hour, night_end_hour,
                                             current_hour)]
    /\ UNCHANGED <<mailbox, now, watch_dir, deposits, night_start_hour, night_end_hour>>
    /\ UNCHANGED pollerVars
    /\ UNCHANGED procVars
    /\ UNCHANGED gatewayVars
    /\ UNCHANGED flagVars

GetPollInterval == GetPollIntervalAt(Hours)

\* An exception leaves _process_new_emails in the middle of a cycle: the rest
\* of the try block (lines 519-530) is skipped.
CycleRaises ==
    /\ pc = "cycle"
    /\ pc' = "except"
    /\ UNCHANGED <<mailbox, now, watch_dir, deposits, processed_message_ids,
                   state_file, email_uids, stats, last, cycle_start_ids,
                   ever_marked, runs, connected, imap, writing>>
    /\ UNCHANGED procVars
    /\ UNCHANGED gatewayVars
    /\ UNCHANGED flagVars
    /\ UNCHANGED schedVars

\* run(), lines 533-540: the handler of the loop disconnects and sleeps.
LoopExcept ==
    /\ pc = "except"
    /\ pc' = LoopLevel(TRUE)
    /\ email_uids' = <<>>
    /\ imap' = _disconnect_imap(imap)
    /\ UNCHANGED <<mailbox, now, watch_dir, deposits, processed_message_ids,
                   state_file, stats, last, cycle_start_ids, ever_marked, runs,
                   connected, writing>>
    /\ UNCHANGED procVars
    /\ UNCHANGED gatewayVars
    /\ UNCHANGED flagVars
    /\ UNCHANGED schedVars

\* _signal_handler (lines 137-140) of the poller's process.
PollerSignal ==
    /\ pc # "stopped"
    /\ running
    /\ running' = FALSE
    /\ UNCHANGED <<mailbox, now, watch_dir, deposits, prunning>>
    /\ UNCHANGED pollerVars
    /\ UNCHANGED procVars
    /\ UNCHANGED gatewayVars
    /\ UNCHANGED schedVars

\* run(), lines 505 and 542: the while loop ends when running is cleared.
PollerStop ==
    /\ pc = "sleep"
    /\ ~WhileRunning(running)
    /\ pc' = "stopped"
    /\ UNCHANGED <<mailbox, now, watch_dir, deposits, processed_message_ids,
                   state_file, email_uids, stats, last, cycle_start_ids,
                   ever_marked, runs, connected, imap, writing>>
    /\ UNCHANGED procVars
    /\ UNCHANGED gatewayVars
    /\ UNCHANGED flagVars
    /\ UNCHANGED schedVars

\* ----------------------------------------------------- PCRPollingService
\* _get_pdf_files: the listings glob('*.pdf') sorted by st_mtime can give
\* (the order of files of equal mtime is the directory's).
IsListingUnsorted(dir, s) ==
    /\ Len(s) = Cardinality({f \in dir : f.name.ext = "pdf"})
    /\ \A i \in 1..Len(s) : s[i] \in dir /\ s[i].name.ext = "pdf"
    /\ \A i, j \in 1..Len(s) : i < j => s[i] # s[j]

IsListing(dir, s) ==
    /\ Len(s) = Cardinality({f \in dir : f.name.ext = "pdf"})
    /\ \A i \in 1..Len(s) : s[i] \in dir /\ s[i].name.ext = "pdf"
    /\ \A i, j \in 1..Len(s) : i < j => s[i] # s[j] /\ s[i].mtime <= s[j].mtime

_get_pdf_files(dir) ==
    {s \in UNION {[1..n -> dir] : n \in 0..Cardinality(dir)} : IsListing(dir, s)}

\* Lines 299-301 and 308: the quarantine name and the sidecar's name.
ErrorPath(name, t) == FileName(name.stem, Append(name.tags, t), name.ext)
ErrorInfoPath(name, t) == FileName(name.stem, Append(name.tags, t), "error.txt")

\* _move_to_error_dir on the local state st = [watch, err, trace, raised, n]:
\* rename the file into the error directory, then write the sidecar.  The
\* first rn calls' renames raise; a rename of a file that is no longer there
\* raises, so that one call at most gets to the sidecar; sc: its write succeeds.
_move_to_error_dir(st, name, error_msg, t, rn, sc) ==
    LET k    == st.n + 1
        here == {f \in st.watch : f.name = name}
        s0   == [st EXCEPT !.n = k, !.raised = FALSE]
    IN  IF here = {} \/ k <= rn
        THEN [s0 EXCEPT !.trace = Append(@, "rename_raise"), !.raised = TRUE]
        ELSE LET f     == CHOOSE g \in here : TRUE
                 moved == {g \in st.err : g.name # ErrorPath(name, t)}
                            \cup {[f EXCEPT !.name = ErrorPath(name, t)]}
                 s1    == [s0 EXCEPT !.watch = st.watch \ here, !.err = moved,
                                     !.trace = Append(@, "rename_ok")]
             IN  IF sc
                 THEN [s1 EXCEPT !.err = WriteFile(moved, ErrorInfoPath(name, t),
                                                   [orig |-> name, msg |-> error_msg], t),
                                 !.trace = Append(@, "sidecar_ok")]
                 ELSE [s1 EXCEPT !.trace = Append(@, "sidecar_raise"), !.raised = TRUE]

\* Lines 353-359 and 377-378: what follows the gateway's answer.
AfterUpsertAlwaysDelete(upsert) == "unlink"

AfterUpsert(upsert) == IF upsert = "success" THEN "unlink" ELSE "quarantine"

UpsertEvent(upsert) ==
    CASE upsert = "success" -> "upsert_ok"
      [] upsert = "fail" -> "upsert_fail"
      [] OTHER -> "upsert_raise"

\* Lines 382-386: the outer handler quarantines; an exception of its own
\* leaves _process_pdf.
OuterExcept(st, name, t, rn, sc) ==
    LET m == _move_to_error_dir(st, name, "Unexpected processing error", t, rn, sc)
    IN  IF m.raised THEN [m EXCEPT !.trace = Append(@, "propagate")]
        ELSE [m EXCEPT !.trace = Append(@, "return_false")]

\* pdf_path.unlink() and the return that follows it.
Unlink(st, name, t, unlinkOk, rn, sc) ==
    IF unlinkOk /\ name \in Names(st.watch)
    THEN [st EXCEPT !.watch = {f \in st.watch : f.name # name},
                    !.trace = @ \o <<"unlink_ok", "return_true">>]
    ELSE OuterExcept([st EXCEPT !.trace = Append(@, "unlink_raise")], name, t, rn, sc)

\* _process_pdf(pdf_path).  parse: "ok" | "error" (the result holds 'error') |
\* "raise"; upsert: "success" | "fail" (success is false) | "raise" (the
\* gateway cannot be imported or constructed).
_process_pdf(watch, err, name, t, parse, upsert, unlinkOk, rn, sc) ==
    LET st0 == [watch |-> watch, err |-> err, trace |-> <<>>, raised |-> FALSE, n |-> 0]
        tr(st, e) == [st EXCEPT !.trace = Append(@, e)]
    IN  CASE parse = "raise" -> OuterExcept(tr(st0, "parse_raise"), name, t, rn, sc)
          [] parse = "error" ->
               LET m == _move_to_error_dir(tr(st0, "parse_error"), name, "Parse failed", t, rn, sc)
               IN  IF m.raised THEN OuterExcept(m, name, t, rn, sc)
                   ELSE tr(m, "return_false")
          [] OTHER ->
               LET s1 == tr(st0, "parse_ok")
               IN  IF AfterUpsert(upsert) = "unlink"
                   THEN Unlink(tr(s1, UpsertEvent(upsert)), name, t, unlinkOk, rn, sc)
                   ELSE IF upsert = "raise"
                   THEN LET m == _move_to_error_dir(tr(s1, "upsert_raise"), name,
                                                    "Configuration error", t, rn, sc)
                        IN  IF m.raised THEN OuterExcept(m, name, t, rn, sc)
                            ELSE tr(m, "return_false")
                   ELSE LET m == _move_to_error_dir(tr(s1, "upsert_fail"), name,
                                                    "Database save failed", t, rn, sc)
                        IN  IF ~m.raised THEN tr(m, "return_false")
                            ELSE LET m2 == _move_to_error_dir(m, name,
                                              "Unexpected database error", t, rn, sc)
                                 IN  IF m2.raised THEN OuterExcept(m2, name, t, rn, sc)
                                     ELSE tr(m2, "return_false")

NoItem == [name |-> NoName, trace |-> <<>>, in_watch |-> FALSE, rest |-> 0]

\* A producer (the poller or another) has written a PDF to the work directory.
\* File names are numbered in the order of their first use.
Deposit ==
    /\ deposits < MaxFiles
    /\ \E stem \in 1..MaxStems :
         /\ stem <= deposits + 1
         /\ FileName(stem, <<>>, "pdf") \notin Names(watch_dir)
         /\ watch_dir' = WriteFile(watch_dir, FileName(stem, <<>>, "pdf"), None, now)
    /\ deposits' = deposits + 1
    /\ UNCHANGED <<mailbox, now>>
    /\ UNCHANGED pollerVars
    /\ UNCHANGED procVars
    /\ UNCHANGED gatewayVars
    /\ UNCHANGED flagVars
    /\ UNCHANGED schedVars

\* run(), lines 395-401: list the work directory; nothing found: sleep.
StartPass ==
    /\ ppc = "sleep"
    /\ WhileRunning(prunning)
    /\ \E s \in _get_pdf_files(watch_dir) :
         /\ pdf_files' = s
         /\ ppc' = IF s = <<>> THEN "sleep" ELSE "pass"
    /\ pidx' = 1
    /\ item' = NoItem
    /\ UNCHANGED <<mailbox, now, watch_dir, error_dir, deposits>>
    /\ UNCHANGED pollerVars
    /\ UNCHANGED gatewayVars
    /\ UNCHANGED flagVars
    /\ UNCHANGED schedVars

\* What can happen to one call of _process_pdf: the parser's and the gateway's
\* answers, whether unlink succeeds, how many renames fail, whether the
\* sidecar is written.  A step the call does not get to is given one value.
PdfOutcomes ==
    {o \in [parse : {"ok", "error", "raise"}, upsert : {"success", "fail", "raise"},
            unlinkOk : BOOLEAN, rn : 0..3, sc : BOOLEAN] :
        /\ o.parse # "ok" => o.upsert = "success"
        /\ (o.parse # "ok" \/ o.upsert # "success") => o.unlinkOk
        /\ (o.parse = "ok" /\ o.upsert = "success" /\ o.unlinkOk) => o.rn = 0 /\ o.sc
        /\ o.rn = 3 => o.sc}

\* The outcomes with no failure of the file system, the parser's process or
\* the gateway's construction.
CleanOutcomes ==
    {o \in PdfOutcomes : /\ o.parse # "raise" /\ o.upsert # "raise"
                         /\ o.unlinkOk /\ o.rn = 0 /\ o.sc}

\* One iteration of the for loop of run() (lines 402-405), when running is
\* set.  An exception that leaves _process_pdf is caught at loop level (lines
\* 413-417): the pass ends.
\* The listing is local to the pass and is dropped at its end.
ProcessPdfWith(outcomes) ==
    /\ ppc = "pass"
    /\ prunning
    /\ LET name == pdf_files[pidx].name
       IN  \E o \in outcomes :
             LET r == _process_pdf(watch_dir, error_dir, name, now, o.parse, o.upsert,
                                   o.unlinkOk, o.rn, o.sc)
                 thrown == r.trace[Len(r.trace)] = "propagate"
                 done   == thrown \/ pidx = Len(pdf_files)
             IN  /\ watch_dir' = r.watch
                 /\ error_dir' = r.err
                 /\ item' = [name |-> name, trace |-> r.trace,
                             in_watch |-> name \in Names(r.watch),
                             rest |-> Len(pdf_files) - pidx]
                 /\ ppc' = IF done THEN LoopLevel(thrown) ELSE "pass"
                 /\ pdf_files' = IF done THEN <<>> ELSE pdf_files
                 /\ pidx' = IF done THEN 1 ELSE pidx + 1
    /\ UNCHANGED <<mailbox, now, deposits>>
    /\ UNCHANGED pollerVars
    /\ UNCHANGED gatewayVars
    /\ UNCHANGED flagVars
    /\ UNCHANGED schedVars

ProcessPdf == ProcessPdfWith(PdfOutcomes)

\* _signal_handler of the polling service's process.
ServiceSignal ==
    /\ ppc # "stopped"
    /\ prunning
    /\ prunning' = FALSE
    /\ UNCHANGED <<mailbox, now, watch_dir, deposits, running>>
    /\ UNCHANGED pollerVars
    /\ UNCHANGED procVars
    /\ UNCHANGED gatewayVars
    /\ UNCHANGED schedVars

\* run(), lines 395, 403-404 and 419: with running cleared the for loop
\* breaks, the sleep is skipped and the while loop ends.
ServiceStop ==
    /\ ppc \in {"sleep", "pass"}
    /\ ~WhileRunning(prunning)
    /\ ppc' = "stopped"
    /\ pdf_files' = <<>>
    /\ pidx' = 1
    /\ UNCHANGED <<mailbox, now, watch_dir, deposits, error_dir, item>>
    /\ UNCHANGED pollerVars
    /\ UNCHANGED gatewayVars
    /\ UNCHANGED flagVars
    /\ UNCHANGED schedVars

\* ------------------------------------------ the write of an attachment
\* The content of a file that open(path, 'wb') has created and nothing was
\* written to yet.
Empty == -1

\* _process_email up to line 438, for the next message of the cycle when it
\* is a new fax with one attachment: the file is created under its final
\* name in the work directory.
OpenAttachment ==
    /\ pc = "cycle"
    /\ writing = NoName
    /\ LET uid == email_uids[stats.emails_checked + 1]
           m   == mailbox[uid]
       IN  /\ EmailPath("OK", MessageId(mailbox, uid), processed_message_ids,
                        m.subjOk) = "extract"
           /\ Len(m.atts) = 1
           /\ LET path == SavePath(watch_dir, m.atts[1], now)
              IN  /\ watch_dir' = WriteFile(watch_dir, path, Empty, now)
                  /\ writing' = path
    /\ UNCHANGED <<mailbox, now, deposits, processed_message_ids, state_file, pc,
                   email_uids, stats, last, cycle_start_ids, ever_marked, runs,
                   connected, imap>>
    /\ UNCHANGED procVars
    /\ UNCHANGED gatewayVars
    /\ UNCHANGED flagVars
    /\ UNCHANGED schedVars

\* The rest of that call (lines 439-447) and of the loop's iteration: the
\* data is written to the open file, wherever a rename has taken it, the
\* file is closed and the message is marked.
CloseAttachment ==
    /\ pc = "cycle"
    /\ writing # NoName
    /\ LET uid     == email_uids[stats.emails_checked + 1]
           checked == stats.emails_checked + 1
           a       == _add_processed_id(processed_message_ids, state_file,
                                        MessageId(mailbox, uid), TRUE)
           written(dir) == {IF f.name.ext = "pdf" /\ f.data = Empty
                            THEN [f EXCEPT !.data = uid] ELSE f : f \in dir}
       IN  /\ watch_dir' = written(watch_dir)
           /\ error_dir' = written(error_dir)
           /\ processed_message_ids' = a.ids
           /\ state_file' = a.file
           /\ ever_marked' = ever_marked \cup {MessageId(mailbox, uid)}
           /\ last' = [uid |-> uid, path |-> "extract", ret |-> MessageId(mailbox, uid),
                       wrote |-> 1, marked |-> TRUE]
           /\ stats' = [emails_checked |-> checked,
                        emails_processed |-> stats.emails_processed + 1]
           /\ pc' = IF checked = Len(email_uids) THEN "sleep" ELSE "cycle"
           /\ imap' = IF checked = Len(email_uids) THEN _disconnect_imap(imap) ELSE imap
    /\ writing' = NoName
    /\ UNCHANGED <<mailbox, now, deposits, email_uids, cycle_start_ids, runs, connected>>
    /\ UNCHANGED <<ppc, pdf_files, pidx, item>>
    /\ UNCHANGED gatewayVars
    /\ UNCHANGED flagVars
    /\ UNCHANGED schedVars

\* ------------------------------------------------------- SupabaseGateway
\* Text is a sequence of characters.  A member of a payload is absent
\* (NoneV, which is also Python's None), null, a string, an integer or a
\* float (v: its decimal text), or an object with a member raw.
NoneV  == [t |-> "none", v |-> <<>>]
Null   == [t |-> "null", v |-> <<>>]
Str(s) == [t |-> "str", v |-> s]
Num(s) == [t |-> "int", v |-> s]
Float(s) == [t |-> "float", v |-> s]
Obj(raw) == [t |-> "object", v |-> <<>>, raw |-> raw]

\* dict.get(key): None for a member that is absent or null.
Get(x) == IF x.t = "null" THEN NoneV ELSE x

\* Python's truth value of a JSON value (an integer of the model is not 0).
Truthy(x) == x.t # "none" /\ x.v # <<>>

Digits == <<"0", "1", "2", "3", "4", "5", "6", "7", "8", "9">>
IsDigit(c) == \E i \in 1..10 : Digits[i] = c
DigitVal(c) == (CHOOSE i \in 1..10 : Digits[i] = c) - 1
AllDigits(cs) == cs # <<>> /\ \A i \in 1..Len(cs) : IsDigit(cs[i])

\* The number a text of digits denotes, and the text of a number on w digits.
RECURSIVE ToInt(_)
ToInt(cs) ==
    IF cs = <<>> THEN 0
    ELSE ToInt(SubSeq(cs, 1, Len(cs) - 1)) * 10 + DigitVal(cs[Len(cs)])

RECURSIVE ToChars(_, _)
ToChars(n, w) ==
    IF w = 0 THEN <<>> ELSE ToChars(n \div 10, w - 1) \o <<Digits[(n % 10) + 1]>>

\* str.split(sep)
RECURSIVE Split(_, _)
Split(cs, sep) ==
    IF \A i \in 1..Len(cs) : cs[i] # sep THEN <<cs>>
    ELSE LET k == CHOOSE i \in 1..Len(cs) :
                      cs[i] = sep /\ \A j \in 1..(i - 1) : cs[j] # sep
         IN  <<SubSeq(cs, 1, k - 1)>> \o Split(SubSeq(cs, k + 1, Len(cs)), sep)

\* int(cad), line 144: an integer, or the text of one; a float is truncated
\* towards zero; ok = FALSE: ValueError or TypeError.
IntOf(x) ==
    IF x.t \in {"int", "str"} /\ AllDigits(x.v)
    THEN [ok |-> TRUE, n |-> ToInt(x.v)]
    ELSE IF x.t = "float"
    THEN [ok |-> TRUE, n |-> ToInt(Split(x.v, ".")[1])]
    ELSE [ok |-> FALSE, n |-> 0]

DaysIn(month, year) ==
    IF month = 2
    THEN (IF year % 4 = 0 /\ (year % 100 # 0 \/ year % 400 = 0) THEN 29 ELSE 28)
    ELSE IF month \in {4, 6, 9, 11} THEN 30 ELSE 31

\* A field of one or two digits (%m %d %H %M %S), of four digits (%Y).
Field(cs, lo, hi) ==
    AllDigits(cs) /\ Len(cs) \in 1..2 /\ ToInt(cs) \in lo..hi

NoDateTime == [ok |-> FALSE, year |-> 0, month |-> 0, day |-> 0,
               hour |-> 0, minute |-> 0, second |-> 0]

\* datetime.strptime(text, "%m/%d/%Y %H:%M:%S"); ok = FALSE: ValueError.
Strptime(cs) ==
    LET parts == Split(cs, " ")
    IN  IF Len(parts) # 2 THEN NoDateTime
        ELSE LET d == Split(parts[1], "/")
                 h == Split(parts[2], ":")
             IN  IF /\ Len(d) = 3 /\ Len(h) = 3
                    /\ Field(d[1], 1, 12) /\ Field(d[2], 1, 31)
                    /\ AllDigits(d[3]) /\ Len(d[3]) = 4 /\ ToInt(d[3]) >= 1
                    /\ ToInt(d[2]) <= DaysIn(ToInt(d[1]), ToInt(d[3]))
                    /\ Field(h[1], 0, 23) /\ Field(h[2], 0, 59) /\ Field(h[3], 0, 59)
                 THEN [ok |-> TRUE, year |-> ToInt(d[3]), month |-> ToInt(d[1]),
                       day |-> ToInt(d[2]), hour |-> ToInt(h[1]),
                       minute |-> ToInt(h[2]), second |-> ToInt(h[3])]
                 ELSE NoDateTime

\* datetime.isoformat() of a datetime with no microsecond
IsoFormatDayFirst(dt) ==
    ToChars(dt.year, 4) \o <<"-">> \o ToChars(dt.day, 2) \o <<"-">>
        \o ToChars(dt.month, 2) \o <<"T">> \o ToChars(dt.hour, 2) \o <<":">>
        \o ToChars(dt.minute, 2) \o <<":">> \o ToChars(dt.second, 2)

IsoFormat(dt) ==
    ToChars(dt.year, 4) \o <<"-">> \o ToChars(dt.month, 2) \o <<"-">>
        \o ToChars(dt.day, 2) \o <<"T">> \o ToChars(dt.hour, 2) \o <<":">>
        \o ToChars(dt.minute, 2) \o <<":">> \o ToChars(dt.second, 2)

\* _parse_datetime(date_str, time_str): the ISO text, or ValueError.
_parse_datetime_defaulting(date_str, time_str) ==
    LET dt == Strptime(date_str \o <<" ">> \o time_str)
    IN  [ok |-> TRUE, iso |-> IsoFormat(dt)]

_parse_datetime(date_str, time_str) ==
    LET dt == Strptime(date_str \o <<" ">> \o time_str)
    IN  IF dt.ok THEN [ok |-> TRUE, iso |-> IsoFormat(dt)]
        ELSE [ok |-> FALSE, iso |-> <<>>]

\* A member of the text json.dumps gives.
Member(key, x) == IF x.t = "none" THEN <<>> ELSE <<<<key, x.t, x.v>>>>
NoRecord == [sent |-> FALSE]
Raise(exc, what) == [exc |-> exc, what |-> what, raw |-> <<>>, record |-> NoRecord]

\* pcr_json.get('incidentLocation', {}).get('raw'), lines 164-165: a section
\* that is null or no object has no get().
RawLocation(j) ==
    IF j.incidentLocation.t = "none" THEN [exc |-> "", value |-> NoneV]
    ELSE IF j.incidentLocation.t = "object"
    THEN [exc |-> "", value |-> Get(j.incidentLocation.raw)]
    ELSE [exc |-> "AttributeError", value |-> NoneV]

\* if x and len(x) > n: x = x[:n], lines 168-169 and 175-176: a number that
\* is not 0 has no len().
TruncateKeepingEnd(x, n) ==
    IF ~Truthy(x) THEN [exc |-> "", value |-> x]
    ELSE IF x.t # "str" THEN [exc |-> "TypeError", value |-> NoneV]
    ELSE [exc |-> "",
          value |-> IF Len(x.v) > n
                    THEN Str(SubSeq(x.v, Len(x.v) - n + 1, Len(x.v))) ELSE x]

Truncate(x, n) ==
    IF ~Truthy(x) THEN [exc |-> "", value |-> x]
    ELSE IF x.t # "str" THEN [exc |-> "TypeError", value |-> NoneV]
    ELSE [exc |-> "",
          value |-> IF Len(x.v) > n THEN Str(SubSeq(x.v, 1, n)) ELSE x]

\* json.dumps(pcr_json): the members the payload has, in their order.
JsonDumpsTruncating(j) ==
    Member("cad", j.cad) \o Member("unit_dispatched", j.unit_dispatched)
        \o Member("incident_type",
                  Truncate(j.incident_type, INCIDENT_TYPE_MAX).value)
        \o (IF j.notifiedByDispatch
            THEN <<<<"notifiedByDispatch", "object", <<>>>>>>
                     \o Member("date", j.date) \o Member("time", j.time)
            ELSE <<>>)
        \o Member("incidentLocation", j.incidentLocation)
        \o (IF j.incidentLocation.t = "object"
            THEN Member("raw", Truncate(j.incidentLocation.raw, LOCATION_MAX).value)
            ELSE <<>>)
        \o (IF j._token_usage THEN <<<<"_token_usage", "object", <<>>>>>> ELSE <<>>)

JsonDumps(j) ==
    Member("cad", j.cad) \o Member("unit_dispatched", j.unit_dispatched)
        \o Member("incident_type", j.incident_type)
        \o (IF j.notifiedByDispatch
            THEN <<<<"notifiedByDispatch", "object", <<>>>>>>
                     \o Member("date", j.date) \o Member("time", j.time)
            ELSE <<>>)
        \o Member("incidentLocation", j.incidentLocation)
        \o (IF j.incidentLocation.t = "object"
            THEN Member("raw", j.incidentLocation.raw)
            ELSE <<>>)
        \o (IF j._token_usage THEN <<<<"_token_usage", "object", <<>>>>>> ELSE <<>>)

\* _prepare_record(pcr_json, unit_id): the record, or the exception raised
\* (raw: the value its text quotes).
_prepare_record(j, unit) ==
    IF Get(j.cad).t = "none" THEN Raise("KeyError", "incidentTimes.cad")
    ELSE IF ~IntOf(j.cad).ok
    THEN [Raise("ValueError", "CAD number cannot be converted to integer")
              EXCEPT !.raw = j.cad.v]
    ELSE IF ~j.notifiedByDispatch
    THEN Raise("KeyError", "incidentTimes.times.notifiedByDispatch")
    ELSE IF ~Truthy(j.date) \/ ~Truthy(j.time)
    THEN Raise("KeyError", "notifiedByDispatch.date or notifiedByDispatch.time")
    ELSE LET p == _parse_datetime(j.date.v, j.time.v)
             raw == RawLocation(j)
             location == Truncate(raw.value, LOCATION_MAX)
             incident_type == Truncate(Get(j.incident_type), INCIDENT_TYPE_MAX)
         IN  IF ~p.ok
             THEN [Raise("ValueError", "Failed to parse datetime")
                       EXCEPT !.raw = j.date.v \o <<" ">> \o j.time.v]
             ELSE IF raw.exc # ""
             THEN Raise(raw.exc, "object has no attribute 'get'")
             ELSE IF location.exc # ""
             THEN Raise(location.exc, "object has no len()")
             ELSE IF incident_type.exc # ""
             THEN Raise(incident_type.exc, "object has no len()")
             ELSE [exc |-> "", what |-> "", raw |-> <<>>,
                   record |-> [incident_number |-> IntOf(j.cad).n,
                               unit_id |-> unit,
                               content |-> JsonDumps(j),
                               incident_date |-> p.iso,
                               location |-> location.value,
                               incident_type |-> incident_type.value]]

\* The store's upsert (line 95; the table is keyed by incident_number and
\* unit_id, lines 67-68): the row of the same key is replaced, or a row is
\* added.
UpsertedAdding(rows, rec) == rows \cup {rec}

Upserted(rows, rec) ==
    {r \in rows : r.incident_number # rec.incident_number \/ r.unit_id # rec.unit_id}
        \cup {rec}

Failure(kind, what, raw) ==
    [success |-> FALSE, error |-> [kind |-> kind, what |-> what, raw |-> raw]]

\* The except clauses of lines 105-118: what the call gives for an exception
\* raised in its try block.
HandledKeyErrorOnly(exc, what, raw) ==
    IF exc = "KeyError" THEN Failure("Missing required field in PCR JSON", what, raw)
    ELSE [raised |-> exc]

Handled(exc, what, raw) ==
    IF exc = "KeyError" THEN Failure("Missing required field in PCR JSON", what, raw)
    ELSE Failure("Database operation failed", what, raw)

\* upsert_pcr_data(pcr_json, unit_id): the dict returned, the record passed
\* to upsert() and the rows of the table.  executeOk = FALSE: execute() raises.
upsert_pcr_data(j, unit_arg, rows, executeOk) ==
    LET unit == IF unit_arg.t = "none" THEN Get(j.unit_dispatched) ELSE unit_arg
        none == [result |-> NoRecord, record |-> NoRecord, table |-> rows]
    IN  IF unit_arg.t = "none" /\ ~Truthy(unit)
        THEN [none EXCEPT !.result =
                  Handled("KeyError",
                          "incidentTimes.unit_dispatched not found and unit_id not provided",
                          <<>>)]
        ELSE LET p == _prepare_record(j, unit.v)
             IN  IF p.exc # ""
                 THEN [none EXCEPT !.result = Handled(p.exc, p.what, p.raw)]
                 ELSE IF ~executeOk
                 THEN [none EXCEPT !.result = Handled("APIError", "execute", <<>>),
                                   !.record = p.record]
                 ELSE [result |-> [success |-> TRUE,
                                   incident_number |-> p.record.incident_number,
                                   unit_id |-> unit.v],
                       record |-> p.record,
                       table  |-> Upserted(rows, p.record)]

\* The payloads and unit_id arguments of the calls.
Cads  == {NoneV, Str(<<"1", "2", "3", "4", "5">>), Num(<<"7">>), Str(<<"a", "b", "c">>)}
Dates == {NoneV, Str(<<>>),
          Str(<<"1", "2", "/", "0", "8", "/", "2", "0", "2", "5">>),
          Str(<<"2", "/", "2", "9", "/", "2", "0", "2", "4">>),
          Str(<<"2", "/", "2", "9", "/", "2", "0", "2", "5">>),
          Str(<<"1", "3", "/", "0", "8", "/", "2", "0", "2", "5">>),
          Str(<<"2", "0", "2", "5", "-", "1", "2", "-", "0", "8">>)}
Times == {NoneV,
          Str(<<"1", "4", ":", "3", "0", ":", "0", "0">>),
          Str(<<"9", ":", "5", ":", "7">>),
          Str(<<"1", "4", ":", "3", "0">>),
          Str(<<"2", "4", ":", "0", "0", ":", "0", "0">>)}
Units == {NoneV, Str(<<"M", "1">>)}

\* Payloads with no incidentLocation and no incident_type.
Payloads ==
    {j \in [cad : Cads, unit_dispatched : Units, notifiedByDispatch : BOOLEAN,
            date : Dates, time : Times, incidentLocation : {NoneV},
            incident_type : {NoneV}, _token_usage : {FALSE}] :
        ~j.notifiedByDispatch => j.date = NoneV /\ j.time = NoneV}

\* What parse_pdf returns (pcr_parser.py:183-188): the payload read from the
\* model's answer, with the member _token_usage added.  Chars(n) is a text
\* of n characters.
Chars(n) == [i \in 1..n |-> Digits[((i + i \div 7) % 10) + 1]]
Locations ==
    {NoneV, Null, Str(Chars(5)), Obj(NoneV), Obj(Null), Obj(Str(<<>>)),
     Obj(Str(Chars(5))), Obj(Str(Chars(LOCATION_MAX))),
     Obj(Str(Chars(LOCATION_MAX + 50))), Obj(Num(<<"5">>))}
IncidentTypes ==
    {NoneV, Null, Str(<<>>), Str(Chars(5)), Str(Chars(INCIDENT_TYPE_MAX)),
     Str(Chars(INCIDENT_TYPE_MAX + 5)), Num(<<"5">>)}
ParsedCads == Cads \cup {Float(<<"3", ".", "7">>)}
ParsedPayloads ==
    [cad : ParsedCads, unit_dispatched : Units, notifiedByDispatch : {TRUE},
     date : {NoneV, Str(<<"1", "2", "/", "0", "8", "/", "2", "0", "2", "5">>)},
     time : {Str(<<"1", "4", ":", "3", "0", ":", "0", "0">>)},
     incidentLocation : Locations, incident_type : IncidentTypes,
     _token_usage : {TRUE}]

\* The unit_id arguments of a caller: none, a unit, the empty text.
Overrides == Units \cup {Str(<<>>)}

NoPayload == [cad |-> NoneV, unit_dispatched |-> NoneV, notifiedByDispatch |-> FALSE,
              date |-> NoneV, time |-> NoneV, incidentLocation |-> NoneV,
              incident_type |-> NoneV, _token_usage |-> FALSE]
NoResult == [called |-> FALSE]

\* The call upsert_pcr_data(pcr_json, unit_id) of a gateway just constructed.
Upsert ==
    /\ db_result = NoResult
    /\ \E executeOk \in BOOLEAN :
         LET r == upsert_pcr_data(pcr_json, unit_id, table, executeOk)
         IN  /\ db_result' = r.result
             /\ record' = r.record
             /\ table' = r.table
    /\ UNCHANGED <<pcr_json, unit_id>>
    /\ UNCHANGED <<mailbox, now, watch_dir, deposits>>
    /\ UNCHANGED pollerVars
    /\ UNCHANGED procVars
    /\ UNCHANGED flagVars
    /\ UNCHANGED schedVars

\* _process_pdf between the parse and the decision on the file
\* (pcr_parser.py:337-351): the member _token_usage is popped from the
\* result, and the result is passed to a new gateway with no unit_id.
SaveParsed ==
    /\ db_result = NoResult
    /\ pcr_json._token_usage
    /\ \E executeOk \in BOOLEAN :
         LET result == [pcr_json EXCEPT !._token_usage = FALSE]
             r == upsert_pcr_data(result, NoneV, table, executeOk)
         IN  /\ pcr_json' = result
             /\ unit_id' = NoneV
             /\ db_result' = r.result
             /\ record' = r.record
             /\ table' = r.table
    /\ UNCHANGED <<mailbox, now, watch_dir, deposits>>
    /\ UNCHANGED pollerVars
    /\ UNCHANGED procVars
    /\ UNCHANGED flagVars
    /\ UNCHANGED schedVars

\* ------------------------------------------------------------------- Init
\* A fax message, a message with another subject, a message with no Message-ID.
Fax      == [hasId |-> TRUE,  subjOk |-> TRUE,  atts |-> <<FaxPdf>>]
OtherMsg == [hasId |-> TRUE,  subjOk |-> FALSE, atts |-> <<FaxPdf>>]
NoIdMsg  == [hasId |-> FALSE, subjOk |-> TRUE,  atts |-> <<FaxPdf>>]
MsgKinds == {Fax, OtherMsg, NoIdMsg}

\* Fax messages by what the MIME walk saves: nothing (no part passes the
\* filters of lines 389-424), or two attachments of the same file name.
EmptyFax  == [hasId |-> TRUE, subjOk |-> TRUE, atts |-> <<>>]
DoubleFax == [hasId |-> TRUE, subjOk |-> TRUE, atts |-> <<FaxPdf, FaxPdf>>]
FaxKinds  == {Fax, EmptyFax, DoubleFax}

\* A fax whose attachment is named FAX.PDF, and the messages whose
\* attachments the poller saves.
UpperFax == [hasId |-> TRUE, subjOk |-> TRUE, atts |-> <<[stem |-> 1, ext |-> "PDF"]>>]
SavedKinds ==
    {m \in {Fax, UpperFax} : \A i \in 1..Len(m.atts) : EndsWithPdf(m.atts[i])}

\* Both services are constructed and have entered run(), which sets running
\* (yahoo_mail_poller.py:502, pcr_parser.py:392); the hours of the night are
\* the defaults.
Init ==
    /\ mailbox = <<>>
    /\ now = 0
    /\ processed_message_ids = {}
    /\ state_file = <<>>
    /\ watch_dir = {}
    /\ pc = "sleep"
    /\ email_uids = <<>>
    /\ stats = [emails_checked |-> 0, emails_processed |-> 0]
    /\ last = NoEmail
    /\ cycle_start_ids = {}
    /\ ever_marked = {}
    /\ runs = 1
    /\ connected = FALSE
    /\ imap = "none"
    /\ writing = NoName
    /\ running = TRUE
    /\ prunning = TRUE
    /\ night_start_hour = NIGHT_START_HOUR
    /\ night_end_hour = NIGHT_END_HOUR
    /\ poll_interval = NoInterval
    /\ error_dir = {}
    /\ ppc = "sleep"
    /\ pdf_files = <<>>
    /\ pidx = 1
    /\ deposits = 0
    /\ item = NoItem
    /\ pcr_json = NoPayload
    /\ unit_id = NoneV
    /\ db_result = NoResult
    /\ record = NoRecord
    /\ table = {}

\* ------------------------------------------------------ the Source Poller
PollerNext ==
    \/ Arrive(MsgKinds)
    \/ StartCycle(BOOLEAN, BOOLEAN)
    \/ ProcessEmail({"OK", "NO", "raise"}, TRUE, {TRUE})

PollerSpec == Init /\ [][PollerNext]_vars

\* The Source Poller, with every failure, over a mailbox of MaxFaxes messages.
ConnectNext ==
    \/ (Len(mailbox) < MaxFaxes /\ Arrive(MsgKinds))
    \/ StartCycle(BOOLEAN, BOOLEAN)
    \/ ProcessEmail({"OK", "NO", "raise"}, TRUE, {TRUE})

ConnectSpec == Init /\ [][ConnectNext]_vars

\* The poller with a state file whose appends and reads can fail, over
\* restarts of the process.
DurableNext ==
    \/ Arrive({Fax, OtherMsg})
    \/ StartCycle({TRUE}, {TRUE})
    \/ ProcessEmail({"OK"}, FALSE, BOOLEAN)
    \/ Restart

DurableSpec == Init /\ [][DurableNext]_vars

\* The poller with such a state file over a mailbox of MaxFaxes messages.
GrowNext ==
    \/ (Len(mailbox) < MaxFaxes /\ Arrive({Fax, OtherMsg}))
    \/ StartCycle({TRUE}, {TRUE})
    \/ ProcessEmail({"OK"}, FALSE, BOOLEAN)
    \/ Restart

GrowSpec == Init /\ [][GrowNext]_vars

\* The poller over fax messages of any number of attachments; the MIME walk
\* can raise after any number of them was written.
ExtractNext ==
    \/ (Len(mailbox) < MaxFaxes /\ Arrive(FaxKinds))
    \/ StartCycle({TRUE}, {TRUE})
    \/ ProcessEmail({"OK"}, TRUE, {TRUE})

ExtractSpec == Init /\ [][ExtractNext]_vars

\* ------------------------------------------------ the Work Queue Processor
ProcNext ==
    \/ Deposit
    \/ Tick
    \/ StartPass
    \/ ProcessPdf

ProcSpec == Init /\ [][ProcNext]_vars

\* The poller when nothing fails: connections, searches, fetches, MIME walks
\* and appends all succeed.  run() is a loop that never blocks for ever, so
\* the next cycle and the next message of a cycle are always taken.
LiveNext ==
    \/ Arrive({Fax, OtherMsg})
    \/ StartCycle({TRUE}, {TRUE})
    \/ ProcessEmail({"OK"}, FALSE, {TRUE})

LiveSpec ==
    /\ Init
    /\ [][LiveNext]_vars
    /\ WF_vars(StartCycle({TRUE}, {TRUE}))
    /\ WF_vars(ProcessEmail({"OK"}, FALSE, {TRUE}))

\* The polling service started on a work directory that holds SortFiles
\* files already, of any modification times; no step of a pass raises.
SortDirs ==
    {{[name |-> FileName(i, <<>>, "pdf"), data |-> None, mtime |-> m[i]] : i \in 1..SortFiles}
        : m \in [1..SortFiles -> 1..MaxMtime]}

SortInit ==
    /\ mailbox = <<>>
    /\ now = MaxMtime
    /\ processed_message_ids = {}
    /\ state_file = <<>>
    /\ watch_dir \in SortDirs
    /\ pc = "sleep"
    /\ email_uids = <<>>
    /\ stats = [emails_checked |-> 0, emails_processed |-> 0]
    /\ last = NoEmail
    /\ cycle_start_ids = {}
    /\ ever_marked = {}
    /\ runs = 1
    /\ connected = FALSE
    /\ imap = "none"
    /\ writing = NoName
    /\ running = TRUE
    /\ prunning = TRUE
    /\ night_start_hour = NIGHT_START_HOUR
    /\ night_end_hour = NIGHT_END_HOUR
    /\ poll_interval = NoInterval
    /\ error_dir = {}
    /\ ppc = "sleep"
    /\ pdf_files = <<>>
    /\ pidx = 1
    /\ deposits = 0
    /\ item = NoItem
    /\ pcr_json = NoPayload
    /\ unit_id = NoneV
    /\ db_result = NoResult
    /\ record = NoRecord
    /\ table = {}

SortNext ==
    \/ StartPass
    \/ ProcessPdfWith(CleanOutcomes)

SortSpec == SortInit /\ [][SortNext]_vars

\* ------------------------------------------------------------ the gateway
\* A gateway is constructed for each call (pcr_parser.py:350); the table
\* holds what an earlier call left, and the call's arguments are any.
PriorTables ==
    {upsert_pcr_data(j, u, {}, TRUE).table : j \in Payloads, u \in Units}

GatewayInit ==
    /\ mailbox = <<>>
    /\ now = 0
    /\ processed_message_ids = {}
    /\ state_file = <<>>
    /\ watch_dir = {}
    /\ pc = "sleep"
    /\ email_uids = <<>>
    /\ stats = [emails_checked |-> 0, emails_processed |-> 0]
    /\ last = NoEmail
    /\ cycle_start_ids = {}
    /\ ever_marked = {}
    /\ runs = 1
    /\ connected = FALSE
    /\ imap = "none"
    /\ writing = NoName
    /\ running = TRUE
    /\ prunning = TRUE
    /\ night_start_hour = NIGHT_START_HOUR
    /\ night_end_hour = NIGHT_END_HOUR
    /\ poll_interval = NoInterval
    /\ error_dir = {}
    /\ ppc = "sleep"
    /\ pdf_files = <<>>
    /\ pidx = 1
    /\ deposits = 0
    /\ item = NoItem
    /\ pcr_json \in Payloads
    /\ unit_id \in Units
    /\ db_result = NoResult
    /\ record = NoRecord
    /\ table \in PriorTables

GatewayNext == Upsert

GatewaySpec == GatewayInit /\ [][GatewayNext]_vars

\* The same, on a table that holds the row of an earlier call.
RetryInit == GatewayInit /\ table # {}

RetryNext == Upsert

RetrySpec == RetryInit /\ [][RetryNext]_vars

\* A parse result is saved by the polling service, or passed by another
\* caller with any unit_id argument, to an empty table.
RecordInit ==
    /\ mailbox = <<>>
    /\ now = 0
    /\ processed_message_ids = {}
    /\ state_file = <<>>
    /\ watch_dir = {}
    /\ pc = "sleep"
    /\ email_uids = <<>>
    /\ stats = [emails_checked |-> 0, emails_processed |-> 0]
    /\ last = NoEmail
    /\ cycle_start_ids = {}
    /\ ever_marked = {}
    /\ runs = 1
    /\ connected = FALSE
    /\ imap = "none"
    /\ writing = NoName
    /\ running = TRUE
    /\ prunning = TRUE
    /\ night_start_hour = NIGHT_START_HOUR
    /\ night_end_hour = NIGHT_END_HOUR
    /\ poll_interval = NoInterval
    /\ error_dir = {}
    /\ ppc = "sleep"
    /\ pdf_files = <<>>
    /\ pidx = 1
    /\ deposits = 0
    /\ item = NoItem
    /\ pcr_json \in ParsedPayloads
    /\ unit_id \in Overrides
    /\ db_result = NoResult
    /\ record = NoRecord
    /\ table = {}

RecordNext ==
    \/ Upsert
    \/ SaveParsed

RecordSpec == RecordInit /\ [][RecordNext]_vars

\* ---------------------------------------------------------- the scheduler
\* A poller constructed with any night hours.
IntervalInit ==
    /\ mailbox = <<>>
    /\ now = 0
    /\ processed_message_ids = {}
    /\ state_file = <<>>
    /\ watch_dir = {}
    /\ pc = "sleep"
    /\ email_uids = <<>>
    /\ stats = [emails_checked |-> 0, emails_processed |-> 0]
    /\ last = NoEmail
    /\ cycle_start_ids = {}
    /\ ever_marked = {}
    /\ runs = 1
    /\ connected = FALSE
    /\ imap = "none"
    /\ writing = NoName
    /\ running = TRUE
    /\ prunning = TRUE
    /\ night_start_hour \in Hours
    /\ night_end_hour \in Hours
    /\ poll_interval = NoInterval
    /\ error_dir = {}
    /\ ppc = "sleep"
    /\ pdf_files = <<>>
    /\ pidx = 1
    /\ deposits = 0
    /\ item = NoItem
    /\ pcr_json = NoPayload
    /\ unit_id = NoneV
    /\ db_result = NoResult
    /\ record = NoRecord
    /\ table = {}

IntervalNext == GetPollInterval

IntervalSpec == IntervalInit /\ [][IntervalNext]_vars

\* ------------------------------------------------------------ both loops
\* The poller and the polling service over the same directory, when nothing
\* fails.  Both run() loops go on for ever: each cycle, each message of a
\* cycle, each pass and each file of a pass is eventually taken.
PipelineNext ==
    \/ (Len(mailbox) < MaxFaxes /\ Arrive(SavedKinds))
    \/ StartCycle({TRUE}, {TRUE})
    \/ ProcessEmail({"OK"}, FALSE, {TRUE})
    \/ StartPass
    \/ ProcessPdfWith(CleanOutcomes)

PipelineSpec ==
    /\ Init
    /\ [][PipelineNext]_vars
    /\ WF_vars(StartCycle({TRUE}, {TRUE}))
    /\ WF_vars(ProcessEmail({"OK"}, FALSE, {TRUE}))
    /\ WF_vars(StartPass)
    /\ WF_vars(ProcessPdfWith(CleanOutcomes))

\* Both loops with exceptions that reach the loop level and with shutdown
\* signals.  A loop that is not stopped goes on: its handler, its next cycle,
\* the next item of a cycle and its exit are always taken; exceptions and
\* signals may or may not come.  Of the failures of a file's handling, the
\* parser's exception and what can follow it are kept.
LoopOutcomes == CleanOutcomes \cup {o \in PdfOutcomes : o.parse = "raise"}

LoopNext ==
    \/ (Len(mailbox) < LoopMsgs /\ Arrive({Fax}))
    \/ StartCycle({TRUE}, {TRUE})
    \/ ProcessEmail({"OK"}, FALSE, {TRUE})
    \/ CycleRaises
    \/ LoopExcept
    \/ PollerSignal
    \/ PollerStop
    \/ StartPass
    \/ ProcessPdfWith(LoopOutcomes)
    \/ ServiceSignal
    \/ ServiceStop

LoopSpec ==
    /\ Init
    /\ [][LoopNext]_vars
    /\ WF_vars(StartCycle({TRUE}, {TRUE}))
    /\ WF_vars(ProcessEmail({"OK"}, FALSE, {TRUE}))
    /\ WF_vars(LoopExcept)
    /\ WF_vars(PollerStop)
    /\ WF_vars(StartPass)
    /\ WF_vars(ProcessPdfWith(LoopOutcomes))
    /\ WF_vars(ServiceStop)

\* The poller's cycles with a connection that can fail at each stage, cycles
\* ended by an exception, and the shutdown signal.
SessionNext ==
    \/ (Len(mailbox) < MaxFaxes /\ Arrive({Fax}))
    \/ StartCycleAt(BOOLEAN, BOOLEAN, ConnectStages)
    \/ ProcessEmail({"OK", "NO"}, FALSE, {TRUE})
    \/ CycleRaises
    \/ LoopExcept
    \/ PollerSignal
    \/ PollerStop

SessionSpec == Init /\ [][SessionNext]_vars

\* Both loops with the shutdown signal and the interval asked before each
\* sleep, at noon and at midnight.  Fairness: a call or a sleep in progress returns, so that a loop
\* that is not stopped takes its next step; signals, exceptions and the
\* length of the sleep are not forced.
StopNext ==
    \/ LoopNext
    \/ GetPollIntervalAt({0, 12})

StopSpec ==
    /\ Init
    /\ [][StopNext]_vars
    /\ WF_vars(StartCycle({TRUE}, {TRUE}))
    /\ WF_vars(ProcessEmail({"OK"}, FALSE, {TRUE}))
    /\ WF_vars(LoopExcept)
    /\ WF_vars(PollerStop)
    /\ WF_vars(StartPass)
    /\ WF_vars(ProcessPdfWith(LoopOutcomes))
    /\ WF_vars(ServiceStop)

\* ------------------------------------------------------------ the search
\* The poller over mailboxes that hold up to SearchMsgs matching messages,
\* more than one cycle takes.
SearchInit ==
    /\ mailbox \in {[i \in 1..n |-> Fax] : n \in 0..SearchMsgs}
    /\ now = 0
    /\ processed_message_ids = {}
    /\ state_file = <<>>
    /\ watch_dir = {}
    /\ pc = "sleep"
    /\ email_uids = <<>>
    /\ stats = [emails_checked |-> 0, emails_processed |-> 0]
    /\ last = NoEmail
    /\ cycle_start_ids = {}
    /\ ever_marked = {}
    /\ runs = 1
    /\ connected = FALSE
    /\ imap = "none"
    /\ writing = NoName
    /\ running = TRUE
    /\ prunning = TRUE
    /\ night_start_hour = NIGHT_START_HOUR
    /\ night_end_hour = NIGHT_END_HOUR
    /\ poll_interval = NoInterval
    /\ error_dir = {}
    /\ ppc = "sleep"
    /\ pdf_files = <<>>
    /\ pidx = 1
    /\ deposits = 0
    /\ item = NoItem
    /\ pcr_json = NoPayload
    /\ unit_id = NoneV
    /\ db_result = NoResult
    /\ record = NoRecord
    /\ table = {}

SearchNext ==
    \/ StartCycle(BOOLEAN, BOOLEAN)
    \/ ProcessEmail({"OK"}, FALSE, {TRUE})

SearchSpec == SearchInit /\ [][SearchNext]_vars

\* ------------------------------------------------- the shared directory
\* The two services on one work directory, the poller's write of an
\* attachment taken step by step so that the other service's steps come
\* between the file's creation and its last byte.
ShareNext ==
    \/ (Len(mailbox) < MaxFaxes /\ Arrive({Fax}))
    \/ StartCycle({TRUE}, {TRUE})
    \/ ProcessEmail({"OK"}, FALSE, {TRUE})
    \/ OpenAttachment
    \/ CloseAttachment
    \/ StartPass
    \/ ProcessPdfWith(LoopOutcomes)

ShareSpec == Init /\ [][ShareNext]_vars

\* ====================================================================
\* Claims
\* ====================================================================
Deleted     == "unlink_ok" \in Range(item.trace) /\ ~item.in_watch
Quarantined == "rename_ok" \in Range(item.trace) /\ ~item.in_watch

\* C1: every work item the processor has handled ended in exactly one
\* terminal state, deleted or quarantined: never both, and never left in the
\* work directory, whatever step of its handling failed.
C1_ExactlyOneTerminalState ==
    item.name # NoName => /\ Deleted # Quarantined
                        /\ ~item.in_watch

\* C2: the source file is unlinked only after the interpretation succeeded
\* and the gateway then returned success; a file that left the work
\* directory without being quarantined was persisted first.
C2_DeleteOnlyAfterPersist ==
    /\ \A i \in 1..Len(item.trace) :
          item.trace[i] \in {"unlink_ok", "unlink_raise"} =>
              /\ i = 3
              /\ item.trace[1] = "parse_ok"
              /\ item.trace[2] = "upsert_ok"
    /\ (item.name # NoName /\ ~item.in_watch /\ "rename_ok" \notin Range(item.trace))
          => "upsert_ok" \in Range(item.trace)

C2_Witness == Deleted /\ item.trace[2] = "upsert_ok"

\* The message the for loop examines next, and its Message-ID.
NextUid == email_uids[stats.emails_checked + 1]
Examines == pc = "cycle" /\ stats'.emails_checked = stats.emails_checked + 1
MoreToExamine == stats.emails_checked < Len(email_uids)

\* C3: examining a message whose identifier is already in the processed-set
\* writes no file to the work directory and changes neither the in-memory
\* set nor the state file.
C3_AlreadyProcessedIsNoOp ==
    [][(Examines /\ MessageId(mailbox, NextUid) \in processed_message_ids)
         => /\ watch_dir' = watch_dir
            /\ processed_message_ids' = processed_message_ids
            /\ state_file' = state_file]_vars

C3_Witness ==
    /\ last.path = "already"
    /\ MessageId(mailbox, last.uid) \in cycle_start_ids
    /\ processed_message_ids = cycle_start_ids
    /\ watch_dir # {}

\* C4: an identifier once marked is in the processed-set of every later run,
\* and between two messages no identifier is in the in-memory set without
\* being in the state file.
C4_MarkedIsDurable ==
    /\ ever_marked \subseteq processed_message_ids
    /\ processed_message_ids \subseteq Range(state_file)

\* C5: when a cycle stopped at an already-processed message, every older
\* message of its search result (that has an identifier) is marked processed.
C5_StopMeansOlderHandled ==
    last.path = "already" =>
        \A j \in (stats.emails_checked + 1)..Len(email_uids) :
            mailbox[email_uids[j]].hasId =>
                MessageId(mailbox, email_uids[j]) \in processed_message_ids

\* C6: when nothing fails, every fax message in the mailbox is eventually
\* marked processed with its attachment deposited in the work directory.
C6_EveryFaxIngested ==
    \A u \in 1..MaxMsgs :
        (u <= Len(mailbox) /\ mailbox[u] = Fax)
            ~> (u \in processed_message_ids /\ \E f \in watch_dir : f.data = u)

\* C7: the search result is newest first; a cycle that met an
\* already-processed message has halted there, having fetched no message
\* after it and newly marked exactly the messages before it; and once a
\* cycle has halted nothing is extracted or marked until the next cycle.
C7_ShortCircuit ==
    /\ [](/\ \A i, j \in 1..Len(email_uids) : i < j => email_uids[i] > email_uids[j]
          /\ last.path = "already" =>
                /\ pc = "sleep"
                /\ last.uid = email_uids[stats.emails_checked]
                /\ stats.emails_processed = stats.emails_checked - 1
                /\ processed_message_ids \ cycle_start_ids =
                      {MessageId(mailbox, email_uids[j]) : j \in 1..(stats.emails_checked - 1)})
    /\ [][pc = "sleep" => /\ watch_dir' = watch_dir
                         /\ processed_message_ids' = processed_message_ids
                         /\ state_file' = state_file]_vars

\* The spec's example: processed-set {M3}, search [M5, M4, M3, M2, M1].
C7_Witness ==
    /\ email_uids = <<5, 4, 3, 2, 1>>
    /\ cycle_start_ids = {3}
    /\ last.path = "already" /\ last.uid = 3
    /\ processed_message_ids = {3, 4, 5}
    /\ pc = "sleep"

\* C8: a not-yet-processed message with another subject is marked, nothing
\* is extracted from it, and the cycle goes on to the next message.
C8_MismatchContinues ==
    last.path = "subject_mismatch" =>
        /\ MessageId(mailbox, last.uid) \in processed_message_ids
        /\ last.wrote = 0
        /\ MoreToExamine => pc = "cycle"

\* C9: a message whose processing raised is not marked, and the cycle goes
\* on to the next message.
C9_ExceptionContinues ==
    last.path = "exception" =>
        /\ MessageId(mailbox, last.uid) \notin processed_message_ids
        /\ MoreToExamine => pc = "cycle"

\* C10: a message with no Message-ID is skipped: nothing is marked, nothing
\* is written, and the cycle goes on to the next message.
C10_NoIdContinues ==
    last.path = "no_id" =>
        /\ ~last.marked
        /\ last.wrote = 0
        /\ MoreToExamine => pc = "cycle"

\* C11: a cycle whose connection to the mailbox failed is aborted: it goes
\* through no message, changes neither the processed-set, the state file nor
\* the work directory, and leaves the poller waiting for its next cycle; a
\* cycle goes through messages only when connected.
C11_FailedConnectAborts ==
    /\ [](pc = "cycle" => connected)
    /\ [][(pc = "sleep" /\ mailbox' = mailbox /\ ~connected')
            => /\ pc' = "sleep"
               /\ email_uids' = <<>>
               /\ processed_message_ids' = processed_message_ids
               /\ state_file' = state_file
               /\ watch_dir' = watch_dir]_vars

\* A failed connection while unprocessed messages wait in the mailbox, after
\* a cycle that marked some.
C11_Witness ==
    /\ ~connected /\ pc = "sleep" /\ last = NoEmail
    /\ processed_message_ids # {}
    /\ \E u \in 1..Len(mailbox) : mailbox[u] = Fax /\ u \notin processed_message_ids

\* C12: a not-yet-processed fax message whose MIME walk completed is marked
\* processed (in memory and in the state file) whatever the number of its
\* attachments, zero included, with every attachment written before; a walk
\* that raised, after writing any number of them, has marked nothing.
C12_MarkedAfterAttachments ==
    /\ last.path = "extract" =>
          /\ last.marked /\ last.ret = MessageId(mailbox, last.uid)
          /\ last.uid \in processed_message_ids
          /\ last.uid \in Range(state_file)
          /\ last.wrote = Len(mailbox[last.uid].atts)
          /\ last.wrote > 0 => \E f \in watch_dir : f.data = last.uid
    /\ last.path = "exception" =>
          /\ ~last.marked
          /\ last.uid \notin processed_message_ids

\* A message with no attachment, and one with two, have been marked.
C12_Witness ==
    /\ last.path = "extract" /\ last.wrote = 0 /\ last.marked
    /\ \E u \in processed_message_ids :
          mailbox[u] = DoubleFax /\ \E f \in watch_dir : f.data = u

\* The handled item's interpretation returned an error, or the gateway
\* returned failure; the text that failure is reported with.
ItemFailed ==
    /\ Len(item.trace) >= 2
    /\ item.trace[1] = "parse_error" \/ item.trace[2] = "upsert_fail"
FailureText == IF item.trace[1] = "parse_error" THEN "Parse failed" ELSE "Database save failed"

\* C13: a work item whose interpretation returned an error, or whose
\* persistence returned failure, is no longer in the work directory, was not
\* deleted, and is in the quarantine directory under <stem>_<timestamp>.pdf
\* with one sidecar holding the original name and that failure's text.
C13_FailureQuarantines ==
    ItemFailed =>
        /\ ~item.in_watch
        /\ "unlink_ok" \notin Range(item.trace)
        /\ \E t \in 0..now :
              /\ ErrorPath(item.name, t) \in Names(error_dir)
              /\ \E f \in error_dir :
                    /\ f.name = ErrorInfoPath(item.name, t)
                    /\ f.data = [orig |-> item.name, msg |-> FailureText]

\* C14: a failure of any step of handling an item stays inside
\* _process_pdf: no exception leaves it, the item is quarantined, and the
\* files listed after it are still handled in the same pass.
C14_ExceptionsStayInHandler ==
    item.name # NoName =>
        /\ "propagate" \notin Range(item.trace)
        /\ (\E e \in Range(item.trace) :
               e \in {"parse_raise", "upsert_raise", "unlink_raise",
                      "rename_raise", "sidecar_raise"}) => Quarantined
        /\ item.rest > 0 => ppc = "pass"

\* The file names the poller can write: fax.pdf or FAX.PDF, plain or with the
\* timestamp of a collision.
PollerNames ==
    {FileName(1, tags, ext) : tags \in {<<>>} \cup {<<t>> : t \in 0..MaxClock},
                              ext \in {"pdf", "PDF"}}

\* C15: when both loops keep running and nothing fails, every file the
\* poller has written to the work directory is eventually consumed (it
\* leaves the work directory), whatever the case of its .pdf suffix.
C15_EveryDepositConsumed ==
    \A n \in PollerNames :
        (\E f \in watch_dir : f.name = n /\ f.data # None)
            ~> (n \notin Names(watch_dir))

\* C16: a pass lists every matching file of the work directory in ascending
\* order of modification time, and handles the listing one file at a time
\* from its head: the file handled is the oldest of those not yet handled.
C16_OldestFirst ==
    /\ [](ppc = "pass" =>
            /\ \A i, j \in 1..Len(pdf_files) :
                  i < j => pdf_files[i].mtime <= pdf_files[j].mtime
            /\ pidx = 1 => Range(pdf_files) = {f \in watch_dir : f.name.ext = "pdf"})
    /\ [][ppc = "pass" =>
            /\ item'.name = pdf_files[pidx].name
            /\ \A j \in pidx..Len(pdf_files) :
                  pdf_files[pidx].mtime <= pdf_files[j].mtime
            /\ ppc' = "pass" => pidx' = pidx + 1 /\ pdf_files' = pdf_files]_vars

\* The spec's example: A (mtime 3), B (mtime 1), C (mtime 2) are files 1, 2
\* and 3; B and C have been handled, in this order, and A comes next.
C16_Witness ==
    /\ ppc = "pass" /\ pidx = 3 /\ Len(pdf_files) = 3
    /\ pdf_files[1].name.stem = 2 /\ pdf_files[1].mtime = 1
    /\ pdf_files[2].name.stem = 3 /\ pdf_files[2].mtime = 2
    /\ pdf_files[3].name.stem = 1 /\ pdf_files[3].mtime = 3
    /\ item.name = pdf_files[2].name

\* C17: the poller never overwrites a file of the work directory: every
\* file that is there stays there, with its content, when attachments are
\* written, however many of them have the same name.
C17_NeverOverwrites ==
    [][\A f \in watch_dir : f \in watch_dir']_vars

\* C18: within a run no identifier leaves the in-memory processed-set, and
\* the state file only ever gets lines appended: what it held stays its
\* prefix, across restarts too.
C18_ProcessedSetOnlyGrows ==
    [][/\ runs' = runs => processed_message_ids \subseteq processed_message_ids'
       /\ Len(state_file') >= Len(state_file)
       /\ SubSeq(state_file', 1, Len(state_file)) = state_file]_vars

\* Two lines were appended, an append failed, and the poller was restarted.
C18_Witness ==
    /\ Len(state_file) >= 2
    /\ runs = 2
    /\ \E u \in processed_message_ids : u \notin Range(state_file)

\* The payload's date and time are texts that strptime accepts.
Parseable(j) ==
    /\ j.notifiedByDispatch
    /\ j.date.t = "str" /\ j.time.t = "str"
    /\ Strptime(j.date.v \o <<" ">> \o j.time.v).ok

\* C19: a call whose payload has no incident number, or no date or no time
\* of the dispatch notification, or a date and time that cannot be parsed,
\* returns success = false, passes no record to the store and leaves the
\* table as it was.
C19_InvalidPayloadRejected ==
    [][(pcr_json.cad.t = "none" \/ ~Parseable(pcr_json))
          => /\ db_result'.success = FALSE
             /\ record' = NoRecord
             /\ table' = table]_vars

\* A call with an incident number and a unit, whose date is no calendar day,
\* was rejected while the table holds a row.
C19_Witness ==
    /\ db_result # NoResult /\ db_result.success = FALSE
    /\ pcr_json.cad = Str(<<"1", "2", "3", "4", "5">>)
    /\ pcr_json.unit_dispatched # NoneV
    /\ pcr_json.date = Str(<<"2", "/", "2", "9", "/", "2", "0", "2", "5">>)
    /\ pcr_json.time = Str(<<"1", "4", ":", "3", "0", ":", "0", "0">>)
    /\ record = NoRecord
    /\ table # {}

\* C20: for a payload whose cad is an integer or the text of one and whose
\* date and time are month/day/year and hh:mm:ss texts, the record has that
\* integer as incident_number and, as incident_date, the 19 characters
\* yyyy-mm-ddThh:mm:ss that denote the same year, month, day, hour, minute
\* and second.
C20_RecordNumberAndDate ==
    [][(/\ IntOf(pcr_json.cad).ok /\ Parseable(pcr_json)
        /\ (unit_id # NoneV \/ Truthy(pcr_json.unit_dispatched)))
          => LET d   == Split(pcr_json.date.v, "/")
                 h   == Split(pcr_json.time.v, ":")
                 iso == record'.incident_date
                 F(a, b) == ToInt(SubSeq(iso, a, b))
             IN  /\ record' # NoRecord
                 /\ record'.incident_number = ToInt(pcr_json.cad.v)
                 /\ Len(iso) = 19
                 /\ iso[5] = "-" /\ iso[8] = "-" /\ iso[11] = "T"
                 /\ iso[14] = ":" /\ iso[17] = ":"
                 /\ F(1, 4) = ToInt(d[3]) /\ F(6, 7) = ToInt(d[1])
                 /\ F(9, 10) = ToInt(d[2]) /\ F(12, 13) = ToInt(h[1])
                 /\ F(15, 16) = ToInt(h[2]) /\ F(18, 19) = ToInt(h[3])]_vars

\* The spec's example: cad "12345", 12/08/2025, 14:30:00.
C20_Witness ==
    /\ pcr_json.cad = Str(<<"1", "2", "3", "4", "5">>)
    /\ pcr_json.date = Str(<<"1", "2", "/", "0", "8", "/", "2", "0", "2", "5">>)
    /\ pcr_json.time = Str(<<"1", "4", ":", "3", "0", ":", "0", "0">>)
    /\ record # NoRecord
    /\ record.incident_number = 12345
    /\ record.incident_date = <<"2", "0", "2", "5", "-", "1", "2", "-", "0", "8", "T",
                                "1", "4", ":", "3", "0", ":", "0", "0">>

\* ---------------------------------------------- the record of the gateway
\* An integer, or the decimal text of one.
IsInteger(x) == x.t \in {"int", "str"} /\ AllDigits(x.v)

\* The call is given a unit: by its argument, or by the payload.
UnitGiven(j, unit_arg) == unit_arg # NoneV \/ Truthy(Get(j.unit_dispatched))

\* C21: a call whose cad is there and is neither an integer nor the decimal
\* text of one fails, with an error that quotes the raw cad, passes no record
\* to the store and leaves the table as it was.
C21_NonIntegerCadRejected ==
    [][(/\ UnitGiven(pcr_json', unit_id')
        /\ Get(pcr_json'.cad) # NoneV
        /\ ~IsInteger(pcr_json'.cad))
          => /\ db_result'.success = FALSE
             /\ db_result'.error.raw = pcr_json'.cad.v
             /\ record' = NoRecord
             /\ table' = table]_vars

\* C22: the unit_id of a record passed to the store is the unit_id argument
\* when one is given, the payload's unit_dispatched otherwise, and is never
\* empty; a call with no unit (none or empty argument, none or empty
\* unit_dispatched) fails and passes no record to the store.
C22_UnitIdNeverEmpty ==
    [][/\ record' # NoRecord
          => /\ record'.unit_id # <<>>
             /\ record'.unit_id = IF Truthy(unit_id') THEN unit_id'.v
                                  ELSE pcr_json'.unit_dispatched.v
       /\ (~Truthy(unit_id') /\ ~Truthy(Get(pcr_json'.unit_dispatched)))
          => /\ db_result'.success = FALSE
             /\ record' = NoRecord]_vars

\* The first n characters of a text.
Leading(cs, n) == SubSeq(cs, 1, IF Len(cs) < n THEN Len(cs) ELSE n)

\* C23: in every record made of a payload whose location and incident type
\* are texts, location is the first LOCATION_MAX characters of
\* incidentLocation.raw and incident_type the first INCIDENT_TYPE_MAX
\* characters of incident_type: the whole text when it is no longer.
C23_LeadingCharacters ==
    record # NoRecord
        => /\ record.location.t = "str"
              => /\ Len(record.location.v) <= LOCATION_MAX
                 /\ record.location.v
                        = Leading(pcr_json.incidentLocation.raw.v, LOCATION_MAX)
           /\ record.incident_type.t = "str"
              => /\ Len(record.incident_type.v) <= INCIDENT_TYPE_MAX
                 /\ record.incident_type.v
                        = Leading(pcr_json.incident_type.v, INCIDENT_TYPE_MAX)
           /\ pcr_json.incidentLocation.t = "object"
              /\ pcr_json.incidentLocation.raw.t = "str"
              => record.location.t = "str"
           /\ pcr_json.incident_type.t = "str" => record.incident_type.t = "str"

\* A record was stored whose location was cut from LOCATION_MAX + 50
\* characters and whose incident type was cut from INCIDENT_TYPE_MAX + 5.
C23_Witness ==
    /\ db_result # NoResult /\ db_result.success
    /\ pcr_json.incidentLocation = Obj(Str(Chars(LOCATION_MAX + 50)))
    /\ pcr_json.incident_type = Str(Chars(INCIDENT_TYPE_MAX + 5))
    /\ Len(record.location.v) = LOCATION_MAX
    /\ Len(record.incident_type.v) = INCIDENT_TYPE_MAX
    /\ record \in table

\* C24: a call with a unit, an integer cad and a date and time that parse
\* fails only when the store does, whatever incidentLocation and
\* incident_type are.
C24_OptionalFieldsNeverFail ==
    [][(/\ UnitGiven(pcr_json', unit_id')
        /\ IsInteger(pcr_json'.cad)
        /\ Parseable(pcr_json'))
          => \/ db_result'.success
             \/ db_result'.error.what = "execute"]_vars

\* json.loads(content): the payload of the members.
Has(content, key) == \E i \in 1..Len(content) : content[i][1] = key
Value(content, key) ==
    IF Has(content, key)
    THEN LET m == content[CHOOSE i \in 1..Len(content) : content[i][1] = key]
         IN  [t |-> m[2], v |-> m[3]]
    ELSE NoneV
JsonLoads(content) ==
    [cad |-> Value(content, "cad"),
     unit_dispatched |-> Value(content, "unit_dispatched"),
     notifiedByDispatch |-> Has(content, "notifiedByDispatch"),
     date |-> Value(content, "date"),
     time |-> Value(content, "time"),
     incidentLocation |-> IF Value(content, "incidentLocation").t = "object"
                          THEN Obj(Value(content, "raw"))
                          ELSE Value(content, "incidentLocation"),
     incident_type |-> Value(content, "incident_type"),
     _token_usage |-> Has(content, "_token_usage")]

\* C25: the content of a record deserializes to the payload the call was
\* given, and has no member _token_usage when the payload had none, as is
\* the case of every payload the polling service passes.
C25_ContentIsThePayload ==
    record # NoRecord
        => /\ JsonLoads(record.content) = pcr_json
           /\ ~pcr_json._token_usage => ~Has(record.content, "_token_usage")

\* The polling service stored a record whose location was cut, and whose
\* content holds the whole location.
C25_Witness ==
    /\ db_result # NoResult /\ db_result.success
    /\ ~pcr_json._token_usage
    /\ pcr_json.incidentLocation = Obj(Str(Chars(LOCATION_MAX + 50)))
    /\ pcr_json.incident_type = Str(Chars(INCIDENT_TYPE_MAX + 5))
    /\ Len(record.location.v) = LOCATION_MAX
    /\ Value(record.content, "raw") = Str(Chars(LOCATION_MAX + 50))
    /\ Value(record.content, "incident_type") = Str(Chars(INCIDENT_TYPE_MAX + 5))

\* C26: a call that fails before a record is made reports a missing or
\* invalid field, and a call that fails in the store a failure of the
\* store: the two kinds of error differ.
C26_ValidationErrorsTyped ==
    [][db_result'.success = FALSE
          => /\ record' = NoRecord
                => db_result'.error.kind = "Missing required field in PCR JSON"
             /\ record' # NoRecord
                => db_result'.error.kind = "Database operation failed"]_vars

\* C27: after a call that succeeds the table holds one row of the record's
\* incident_number and unit_id, which is the record of the call, and the
\* rows of the other keys as they were; a call that fails leaves the table
\* as it was.
C27_OneRowPerKey ==
    [][IF db_result'.success
       THEN /\ {r \in table' : /\ r.incident_number = record'.incident_number
                               /\ r.unit_id = record'.unit_id} = {record'}
            /\ \A r \in table :
                   (r.incident_number # record'.incident_number
                        \/ r.unit_id # record'.unit_id) => r \in table'
            /\ table' \subseteq table \cup {record'}
       ELSE table' = table]_vars

\* A call succeeded on a table that held a row, and the table holds the
\* call's record only: the row had the record's key.
C27_Witness ==
    /\ db_result # NoResult /\ db_result.success
    /\ table = {record}

\* C28: what a call gives is a dict of success = true, incident_number and
\* unit_id, or a dict of success = false and error; no exception leaves it.
C28_AlwaysReturnsAValue ==
    db_result # NoResult
        => \/ /\ DOMAIN db_result = {"success", "incident_number", "unit_id"}
              /\ db_result.success = TRUE
           \/ /\ DOMAIN db_result = {"success", "error"}
              /\ db_result.success = FALSE

\* A call whose incidentLocation is null, so that .get() raised
\* AttributeError, returned success = false.
C28_Witness ==
    /\ db_result # NoResult
    /\ DOMAIN db_result = {"success", "error"}
    /\ pcr_json.incidentLocation = Null
    /\ db_result.error.what = "object has no attribute 'get'"

\* ------------------------------------------------------------ the scheduler
\* The hours of the night that starts at start and ends before end: the
\* hours met going from start, round midnight, up to the hour before end.
NightHours(start, end) ==
    {(start + k) % 24 : k \in 0..(((end - start + 24) % 24) - 1)}

\* C29: for every start and end of the night and every hour, the interval is
\* the night's when the hour is in the night and the day's otherwise (start
\* included, end excluded, round midnight when start > end); asking for it
\* changes nothing but the answer.
C29_NightWindow ==
    /\ [](poll_interval # NoInterval
            => poll_interval.seconds
                   = IF poll_interval.hour \in NightHours(night_start_hour, night_end_hour)
                     THEN NIGHT_POLL_INTERVAL ELSE DAY_POLL_INTERVAL)
    /\ [](/\ _get_poll_interval(23, 6, 0) = NIGHT_POLL_INTERVAL
          /\ _get_poll_interval(23, 6, 23) = NIGHT_POLL_INTERVAL
          /\ _get_poll_interval(23, 6, 6) = DAY_POLL_INTERVAL
          /\ _get_poll_interval(23, 6, 12) = DAY_POLL_INTERVAL)
    /\ [][poll_interval' # poll_interval
            => UNCHANGED <<mailbox, now, watch_dir, deposits, pollerVars, procVars,
                           gatewayVars, flagVars, night_start_hour, night_end_hour>>]_vars

\* With the night from 23 to 6, the interval was asked at midnight and was
\* the night's.
C29_Witness ==
    /\ night_start_hour = 23 /\ night_end_hour = 6
    /\ poll_interval # NoInterval
    /\ poll_interval.hour = 0
    /\ poll_interval.seconds = NIGHT_POLL_INTERVAL

\* ------------------------------------------------------------- both loops
\* The last _process_pdf call raised into run().
PassRaised == item.trace # <<>> /\ item.trace[Len(item.trace)] = "propagate"

\* C30: an exception that reaches the loop level of either run() does not
\* end the loop: the handler leaves it sleeping, and unless a signal clears
\* running the next cycle (the next pass) is started; a loop is only stopped
\* with running cleared.
C30_LoopSurvivesExceptions ==
    /\ [](pc = "stopped" => ~running)
    /\ [](ppc = "stopped" => ~prunning)
    /\ [][pc = "except" => pc' \in {"except", "sleep"}]_vars
    /\ [][PassRaised' /\ item' # item => ppc' = "sleep"]_vars
    /\ (pc = "except") ~> (pc = "cycle" \/ ~running)
    /\ (PassRaised /\ ppc = "sleep") ~> (item = NoItem \/ ~prunning)

\* An exception reached the loop level of the poller while the polling
\* service slept after an exception of its own, and no signal had come.
C30_Witness ==
    /\ pc = "except" /\ running
    /\ PassRaised /\ ppc = "sleep" /\ prunning

\* ------------------------------------------------------------ cancellation
\* A signal that comes while an item is handled changes nothing of the
\* item's handling, which does not read the flag: it is the signal taken
\* after the item's step.  An item's step taken with the flag cleared is an
\* item started after the signal.

\* C31: with running cleared no further item is started in either loop (no
\* message by the poller, no file by the polling service) and no cycle is.
C31_NoItemAfterSignal ==
    /\ [][~running => /\ stats'.emails_checked <= stats.emails_checked
                      /\ pc' # "cycle" \/ pc = "cycle"]_vars
    /\ [][~prunning => /\ item' = item
                       /\ ppc' # "pass" \/ ppc = "pass"]_vars

\* ------------------------------------------------------------ connection
\* C32: between two cycles (in the sleep, and after the loop) the poller
\* holds no open connection: the one the cycle opened was closed and logged
\* out, whether the cycle ended normally, by an exception, or by a failed
\* login or select.
C32_NoConnectionBetweenCycles ==
    pc \in {"sleep", "stopped"} => imap = "none"

\* ------------------------------------------------------------ the search
\* The n newest of the messages 1..size, newest first.
NewestFirst(size, n) ==
    [i \in 1..(IF size < n THEN size ELSE n) |-> size - i + 1]

\* C33: the cycle's list is the MAX_EMAILS_PER_POLL newest matching
\* messages, newest first, or empty (the search or the connection failed);
\* a cycle with an empty list marks and extracts nothing.
C33_SearchNewestCapped ==
    /\ [](/\ Len(email_uids) <= MAX_EMAILS_PER_POLL
          /\ email_uids \in {<<>>, NewestFirst(Len(mailbox), MAX_EMAILS_PER_POLL)})
    /\ [][(pc = "sleep" /\ email_uids' = <<>>)
            => /\ pc' = "sleep"
               /\ processed_message_ids' = processed_message_ids
               /\ ever_marked' = ever_marked
               /\ state_file' = state_file
               /\ watch_dir' = watch_dir]_vars

C33_Witness ==
    /\ Len(mailbox) > MAX_EMAILS_PER_POLL
    /\ pc = "cycle"
    /\ Len(email_uids) = MAX_EMAILS_PER_POLL
    /\ email_uids[1] = Len(mailbox)
    /\ stats.emails_checked > 0

\* ------------------------------------------------- the shared directory
\* C34: the polling service lists and handles only files whose writer is
\* done: no file of a listing, and no file given to _process_pdf, is the
\* one the poller has open for writing.
C34_OnlyFinishedFilesAreRead ==
    /\ [][pdf_files' # pdf_files
            => \A i \in 1..Len(pdf_files') : pdf_files'[i].name # writing]_vars
    /\ [][(ppc = "pass" /\ <<pidx, ppc>>' # <<pidx, ppc>>)
            => pdf_files[pidx].name # writing]_vars
    /\ [](\A f \in error_dir : f.name.ext = "pdf" => f.data # Empty)

\* ------------------------------------------------------------ quarantine
\* C35: what is in the error directory stays there as it is: no step
\* removes or replaces a quarantined file or a sidecar.
C35_QuarantineRetained ==
    [][\A f \in error_dir : f \in error_dir']_vars

\* C36: an item the gateway has stored is deleted and is not in the error
\* directory (also when unlink() raises); an item in the error directory
\* is one that was not stored.
Persisted == "upsert_ok" \in Range(item.trace)

C36_PersistedNeverQuarantined ==
    /\ Persisted => Deleted /\ "rename_ok" \notin Range(item.trace)
    /\ Quarantined => ~Persisted

\* ------------------------------------------------------------ shutdown
\* C37: once the signal has cleared the flag of a loop, the loop starts no
\* new cycle, asks for no interval (the sleep is skipped), and run() returns.
C37_ShutdownTerminates ==
    /\ [][~running => /\ pc' = "cycle" => pc = "cycle"
                      /\ poll_interval' = poll_interval]_vars
    /\ [][~prunning => (ppc' = "pass" => ppc = "pass")]_vars
    /\ ~running ~> pc = "stopped"
    /\ ~prunning ~> ppc = "stopped"
    /\ [](pc = "stopped" => [](pc = "stopped"))
    /\ [](ppc = "stopped" => [](ppc = "stopped"))

C37_Witness ==
    /\ ~running /\ pc = "stopped"
    /\ ~prunning /\ ppc = "stopped"
    /\ stats.emails_checked > 0
    /\ item.name # NoName
    /\ poll_interval # NoInterval

====
